---- MODULE Spec2Model ----
(***************************************************************************)
(* The two benchmark-log scripts of scripts/: parse-bench-output.py (prints *)
(* a console table) and parse-bench-summary.py (writes bench-summary.md and *)
(* prints the console table).  Text is modelled as sequences of one-        *)
(* character strings, so that substring tests, split, strip and padding do  *)
(* what the Python operations do.                                           *)
(***************************************************************************)
EXTENDS Integers, Sequences, FiniteSets

\* ------------------------------------------------------------------ bounds
\* Longest log, in lines, that Init draws.
MaxLines == 3

\* ------------------------------------------------------ literals of the code
\* "Runtime" (header test and header guard)
RuntimeWord ==
  <<"R","u","n","t","i","m","e">>

\* "Min" (header test)
MinWord ==
  <<"M","i","n">>

\* "|" (the column separator)
Pipe == "|"

\* print("\n| Runtime | Min   | Max   | Avg   |")
ConsoleHeader ==
  <<"\n","|"," ","R","u","n","t","i","m","e"," ","|"," ","M","i","n"," "," ",
    " ","|"," ","M","a","x"," "," "," ","|"," ","A","v","g"," "," "," ","|">>

\* print("|---------|-------|-------|-------|")
ConsoleSeparator ==
  <<"|","-","-","-","-","-","-","-","-","-","|","-","-","-","-","-","-","-",
    "|","-","-","-","-","-","-","-","|","-","-","-","-","-","-","-","|">>

\* print("No benchmark results found")
NoResults ==
  <<"N","o"," ","b","e","n","c","h","m","a","r","k"," ","r","e","s","u","l",
    "t","s"," ","f","o","u","n","d">>

\* f"\nTotal: {len(results)} runtimes tested", before the count
TotalPre ==
  <<"\n","T","o","t","a","l",":"," ">>

\* ... and after the count
TotalPost ==
  <<" ","r","u","n","t","i","m","e","s"," ","t","e","s","t","e","d">>

\* f.write("\n## Performance Benchmarks\n\n")
MdHeading ==
  <<"\n","#","#"," ","P","e","r","f","o","r","m","a","n","c","e"," ","B","e",
    "n","c","h","m","a","r","k","s","\n","\n">>

\* f.write("| Runtime | Min | Max | Avg |\n")
MdHeader ==
  <<"|"," ","R","u","n","t","i","m","e"," ","|"," ","M","i","n"," ","|"," ",
    "M","a","x"," ","|"," ","A","v","g"," ","|","\n">>

\* f.write("|--------|-----|-----|-----|\n")
MdSeparator ==
  <<"|","-","-","-","-","-","-","-","-","|","-","-","-","-","-","|","-","-",
    "-","-","-","|","-","-","-","-","-","|","\n">>

\* f"\n**Total runtimes tested:** {len(results)}\n", before the count
MdTotalPre ==
  <<"\n","*","*","T","o","t","a","l"," ","r","u","n","t","i","m","e","s"," ",
    "t","e","s","t","e","d",":","*","*"," ">>

\* len(parts) >= 4
MinFields == 4

\* {r[0]:7}
RuntimeWidth == 7

\* {r[1]:5}, {r[2]:5}, {r[3]:5}
ValueWidth == 5

\* ------------------------------------------------------- Python operations
\* Characters str.strip() removes.
Whitespace == {" ", "\t", "\n", "\r"}

Least(S) == CHOOSE x \in S : \A y \in S : x <= y

Greatest(S) == CHOOSE x \in S : \A y \in S : x >= y

\* sub in s
Contains(sub, s) ==
  \E j \in 1..(Len(s) - Len(sub) + 1) : SubSeq(s, j, j + Len(sub) - 1) = sub

\* s.strip()
Strip(s) ==
  LET keep == {j \in 1..Len(s) : s[j] \notin Whitespace}
  IN  IF keep = {} THEN <<>> ELSE SubSeq(s, Least(keep), Greatest(keep))

\* s.split(sep), sep one character: one more piece than there are separators.
RECURSIVE Split(_, _)
Split(s, sep) ==
  LET at == {j \in 1..Len(s) : s[j] = sep}
  IN  IF at = {} THEN <<s>>
      ELSE <<SubSeq(s, 1, Least(at) - 1)>>
             \o Split(SubSeq(s, Least(at) + 1, Len(s)), sep)

\* str(n), n >= 0
RECURSIVE Str(_)
Str(n) ==
  LET digit == <<"0", "1", "2", "3", "4", "5", "6", "7", "8", "9">>
  IN  IF n < 10 THEN <<digit[n + 1]>>
      ELSE Str(n \div 10) \o <<digit[(n % 10) + 1]>>

\* Format with the value cut to the width (a fixed-width column).
Format_Truncated(s, w) ==
  IF Len(s) >= w THEN SubSeq(s, 1, w)
  ELSE s \o [j \in 1..(w - Len(s)) |-> " "]

\* f"{s:w}" for a string s: left-justified, padded with spaces up to the
\* minimum width w, never truncated.
Format(s, w) ==
  IF Len(s) >= w THEN s ELSE s \o [j \in 1..(w - Len(s)) |-> " "]

\* ------------------------------------------------------------ the parse loop
\* IsHeader with `or` for `and`.
IsHeader_Either(line) ==
  Contains(RuntimeWord, line) \/ Contains(MinWord, line)

\* "Runtime" in line and "Min" in line
IsHeader(line) == Contains(RuntimeWord, line) /\ Contains(MinWord, line)

\* in_table and line.strip() and "|" in line
IsCandidate(inTable, line) ==
  inTable /\ Strip(line) # <<>> /\ Contains(<<Pipe>>, line)

\* Parts with the segments filtered but not trimmed:
\* [p for p in line.split("|") if p.strip()]
Parts_Untrimmed(line) ==
  SelectSeq(Split(line, Pipe), LAMBDA p : Strip(p) # <<>>)

\* Parts with the segments trimmed but not filtered:
\* [p.strip() for p in line.split("|")]
Parts_KeepEmpty(line) ==
  LET segs == Split(line, Pipe)
  IN  [j \in 1..Len(segs) |-> Strip(segs[j])]

\* [p.strip() for p in line.split("|") if p.strip()]
Parts(line) ==
  LET segs == Split(line, Pipe)
      stripped == [j \in 1..Len(segs) |-> Strip(segs[j])]
  IN  SelectSeq(stripped, LAMBDA p : p # <<>>)

\* Accepts without the header guard.
Accepts_NoGuard(parts) == Len(parts) >= MinFields

\* Accepts with the field count off by one.
Accepts_ThreeFields(parts) ==
  Len(parts) >= MinFields - 1 /\ parts[1] # RuntimeWord

\* len(parts) >= 4 and parts[0] != "Runtime"
Accepts(parts) == Len(parts) >= MinFields /\ parts[1] # RuntimeWord

\* results.append(parts): the record is the whole list of segments.
Record(parts) == parts

\* EndsScan without the in_table test: any blank line ends the scan.
EndsScan_AnyBlank(inTable, line) == Strip(line) = <<>>

\* elif in_table and not line.strip()
EndsScan(inTable, line) == inTable /\ Strip(line) = <<>>

\* ------------------------------------------------------------- the renderers
\* f"| {r[0]:7} | {r[1]:5} | {r[2]:5} | {r[3]:5} |"
ConsoleRow(r) ==
  <<"|", " ">> \o Format(r[1], RuntimeWidth) \o <<" ", "|", " ">>
    \o Format(r[2], ValueWidth) \o <<" ", "|", " ">>
    \o Format(r[3], ValueWidth) \o <<" ", "|", " ">>
    \o Format(r[4], ValueWidth) \o <<" ", "|">>

\* f"\nTotal: {len(results)} runtimes tested"
ConsoleTotal(n) == TotalPre \o Str(n) \o TotalPost

\* MdRow with the console row's padding.
MdRow_Padded(r) == ConsoleRow(r) \o <<"\n">>

\* f"| {r[0]} | {r[1]} | {r[2]} | {r[3]} |\n"
MdRow(r) ==
  <<"|", " ">> \o r[1] \o <<" ", "|", " ">> \o r[2] \o <<" ", "|", " ">>
    \o r[3] \o <<" ", "|", " ">> \o r[4] \o <<" ", "|", "\n">>

\* f"\n**Total runtimes tested:** {len(results)}\n"
MdTotal(n) == MdTotalPre \o Str(n) \o <<"\n">>

\* --------------------------------------------------------------- the inputs
\* 'Runtime Min Max Avg'
LnHeader ==
  <<"R","u","n","t","i","m","e"," ","M","i","n"," ","M","a","x"," ","A","v",
    "g">>

\* '| go | 1.2 | 5.6 | 3.1 |'
LnRow ==
  <<"|"," ","g","o"," ","|"," ","1",".","2"," ","|"," ","5",".","6"," ","|",
    " ","3",".","1"," ","|">>

\* '| python3.12 | 1.2 | 105.25 | 3.1 | ms |'
LnWide ==
  <<"|"," ","p","y","t","h","o","n","3",".","1","2"," ","|"," ","1",".","2"," ","|"," ",
    "1","0","5",".","2","5"," ","|"," ","3",".","1"," ","|"," ","m","s"," ",
    "|">>

\* '| go | 1 | 2 |'
LnShort ==
  <<"|"," ","g","o"," ","|"," ","1"," ","|"," ","2"," ","|">>

\* 'done'
LnText ==
  <<"d","o","n","e">>

\* '| Runtime | 1 | 2 | 3 |'
LnGuard ==
  <<"|"," ","R","u","n","t","i","m","e"," ","|"," ","1"," ","|"," ","2"," ",
    "|"," ","3"," ","|">>

\* '| Min Runtime | 1 | 2 | 3 |'
LnBoth ==
  <<"|"," ","M","i","n"," ","R","u","n","t","i","m","e"," ","|"," ","1"," ",
    "|"," ","2"," ","|"," ","3"," ","|">>

\* 'rust|| 1 |2\t| 3'
LnLoose ==
  <<"r","u","s","t","|","|"," ","1"," ","|","2","\t","|"," ","3">>

\* ''
LnBlank ==
  <<>>

\* ' \t'
LnSpaces ==
  <<" ","\t">>

\* 'old\n'
OldSummary ==
  <<"o","l","d","\n">>

\* Lines a log is made of.
LogLines ==
  {LnHeader, LnRow, LnWide, LnShort, LnText, LnGuard, LnBoth, LnLoose,
   LnBlank, LnSpaces}

\* "\n".join(ls): the text of a file whose lines are ls.
RECURSIVE Join(_)
Join(ls) ==
  IF Len(ls) = 1 THEN ls[1]
  ELSE ls[1] \o <<"\n">> \o Join(SubSeq(ls, 2, Len(ls)))

LogTexts == {Join(ls) : ls \in UNION {[1..n -> LogLines] : n \in 1..MaxLines}}

NoFile == [exists |-> FALSE, data |-> <<>>]

File(text) == [exists |-> TRUE, data |-> text]

\* ---------------------------------------------------------------- the state
VARIABLES
  script,     \* which script runs: "output" or "summary"
  log,        \* bench-output.log
  summary,    \* bench-summary.md
  stdout,     \* the arguments of the print calls so far
  pc,         \* position in the script
  content,    \* content
  lines,      \* lines
  in_table,   \* in_table
  results,    \* results
  i,          \* position of `for line in lines`
  k           \* position of `for r in results`

vars ==
  <<script, log, summary, stdout, pc, content, lines, in_table, results, i, k>>

Init ==
  /\ script \in {"output", "summary"}
  /\ log \in {NoFile} \cup {File(t) : t \in LogTexts}
  /\ summary \in IF script = "summary" THEN {NoFile, File(OldSummary)}
                 ELSE {NoFile}
  /\ stdout = <<>>
  /\ pc = "read"
  /\ content = <<>>
  /\ lines = <<>>
  /\ in_table = FALSE
  /\ results = <<>>
  /\ i = 1
  /\ k = 1

\* with open("bench-output.log", "r") as f: content = f.read()
ReadLog ==
  /\ pc = "read"
  /\ log.exists
  /\ content' = log.data
  /\ pc' = "split"
  /\ UNCHANGED <<script, log, summary, stdout, lines, in_table, results, i, k>>

\* ReadFail with the error swallowed: the script goes on with empty content.
ReadFail_Swallowed ==
  /\ pc = "read"
  /\ ~log.exists
  /\ pc' = "split"
  /\ UNCHANGED <<script, log, summary, stdout, content, lines, in_table,
                 results, i, k>>

\* open() raises FileNotFoundError, which nothing catches.
ReadFail ==
  /\ pc = "read"
  /\ ~log.exists
  /\ pc' = "crashed"
  /\ UNCHANGED <<script, log, summary, stdout, content, lines, in_table,
                 results, i, k>>

\* lines = content.split("\n"); in_table = False; results = []
SplitLines ==
  /\ pc = "split"
  /\ lines' = Split(content, "\n")
  /\ in_table' = FALSE
  /\ results' = <<>>
  /\ i' = 1
  /\ pc' = "scan"
  /\ UNCHANGED <<script, log, summary, stdout, content, k>>

\* Where the script goes when the for loop is left.
AfterScan == IF script = "summary" THEN "md_open" ELSE "console"

\* One iteration of `for line in lines`.
ScanLine ==
  /\ pc = "scan"
  /\ i <= Len(lines)
  /\ LET line == lines[i]
     IN  IF IsHeader(line)
         THEN /\ in_table' = TRUE
              /\ i' = i + 1
              /\ UNCHANGED <<results, pc>>
         ELSE IF IsCandidate(in_table, line)
         THEN /\ results' = IF Accepts(Parts(line))
                            THEN Append(results, Record(Parts(line)))
                            ELSE results
              /\ i' = i + 1
              /\ UNCHANGED <<in_table, pc>>
         ELSE IF EndsScan(in_table, line)
         THEN /\ pc' = AfterScan
              /\ UNCHANGED <<in_table, results, i>>
         ELSE /\ i' = i + 1
              /\ UNCHANGED <<in_table, results, pc>>
  /\ UNCHANGED <<script, log, summary, stdout, content, lines, k>>

\* The for loop runs out of lines.
ScanEnd ==
  /\ pc = "scan"
  /\ i > Len(lines)
  /\ pc' = AfterScan
  /\ UNCHANGED <<script, log, summary, stdout, content, lines, in_table,
                 results, i, k>>

\* with open("bench-summary.md", "w") as f: the file is created or truncated.
MdOpen ==
  /\ pc = "md_open"
  /\ summary' = File(<<>>)
  /\ pc' = "md_heading"
  /\ UNCHANGED <<script, log, stdout, content, lines, in_table, results, i, k>>

\* f.write(text), then on to position next.
MdWrite(at, text, next) ==
  /\ pc = at
  /\ summary' = File(summary.data \o text)
  /\ pc' = next
  /\ UNCHANGED <<script, log, stdout, content, lines, in_table, results, i>>

MdWriteHeading == MdWrite("md_heading", MdHeading, "md_header") /\ k' = k

MdWriteHeader == MdWrite("md_header", MdHeader, "md_separator") /\ k' = k

MdWriteSeparator == MdWrite("md_separator", MdSeparator, "md_rows") /\ k' = 1

\* One iteration of `for r in results` in the with block.
MdWriteRow ==
  /\ k <= Len(results)
  /\ MdWrite("md_rows", MdRow(results[k]), "md_rows")
  /\ k' = k + 1

\* The total line; the with block ends and the file is closed.
MdWriteTotal ==
  /\ k > Len(results)
  /\ MdWrite("md_rows", MdTotal(Len(results)), "console")
  /\ k' = k

\* print(text), then on to position next.
Emit(at, text, next) ==
  /\ pc = at
  /\ stdout' = Append(stdout, text)
  /\ pc' = next
  /\ UNCHANGED <<script, log, summary, content, lines, in_table, results, i>>

\* Whether the script has an else branch for an empty result.
HasElse == script = "output"

\* if results: ... else: ...
ConsoleTest ==
  /\ pc = "console"
  /\ pc' = IF results # <<>> THEN "c_header"
           ELSE IF HasElse THEN "c_none" ELSE "done"
  /\ UNCHANGED <<script, log, summary, stdout, content, lines, in_table,
                 results, i, k>>

PrintHeader == Emit("c_header", ConsoleHeader, "c_separator") /\ k' = k

PrintSeparator == Emit("c_separator", ConsoleSeparator, "c_rows") /\ k' = 1

\* One iteration of `for r in results` of the console table.
PrintRow ==
  /\ k <= Len(results)
  /\ Emit("c_rows", ConsoleRow(results[k]), "c_rows")
  /\ k' = k + 1

PrintTotal ==
  /\ k > Len(results)
  /\ Emit("c_rows", ConsoleTotal(Len(results)), "done")
  /\ k' = k

PrintNone == Emit("c_none", NoResults, "done") /\ k' = k

Next ==
  \/ ReadLog
  \/ ReadFail
  \/ SplitLines
  \/ ScanLine
  \/ ScanEnd
  \/ MdOpen
  \/ MdWriteHeading
  \/ MdWriteHeader
  \/ MdWriteSeparator
  \/ MdWriteRow
  \/ MdWriteTotal
  \/ ConsoleTest
  \/ PrintHeader
  \/ PrintSeparator
  \/ PrintRow
  \/ PrintTotal
  \/ PrintNone

Spec == Init /\ [][Next]_vars

\* ------------------------------------------ vocabulary of the properties
\* These are stated from the log's lines alone, not through the operators
\* the parse loop uses.

\* The for loop has been left.
ScanDone == pc \notin {"read", "split", "scan", "crashed"}

\* The for loop has just been left: the statement after it comes next.
LoopEnded == pc \in {"md_open", "console"}

\* The elements of a set of numbers, in increasing order.
Sorted(S) ==
  [n \in 1..Cardinality(S) |->
     CHOOSE x \in S : Cardinality({y \in S : y < x}) = n - 1]

\* A line that is empty or whitespace-only.
Blank(line) == \A j \in 1..Len(line) : line[j] \in Whitespace

\* word occurs in line as a substring.
Occurs(word, line) ==
  \E a \in 1..Len(line) :
    /\ line[a] = word[1]
    /\ a + Len(word) - 1 <= Len(line)
    /\ \A n \in 2..Len(word) : line[a + n - 1] = word[n]

\* A header-trigger line: both substrings occur somewhere in it.
Trigger(line) == Occurs(RuntimeWord, line) /\ Occurs(MinWord, line)

\* The trimmed non-empty pipe-split segments of a line, in order: the
\* stretches between neighbouring cuts (the pipes and the two ends of the
\* line) that hold a non-whitespace character, from the first to the last
\* such character.
Segments(line) ==
  LET cuts == {0, Len(line) + 1} \cup {j \in 1..Len(line) : line[j] = Pipe}
      next(a) == Least({c \in cuts : c > a})
      ink(a) == {j \in (a + 1)..(next(a) - 1) : line[j] \notin Whitespace}
      starts == Sorted({a \in cuts : a <= Len(line) /\ ink(a) # {}})
  IN  [n \in 1..Len(starts) |->
         LET inked == ink(starts[n])
         IN  SubSeq(line, Least(inked), Greatest(inked))]

\* A candidate data row: non-blank, with a pipe in it.
CandidateRow(line) ==
  ~Blank(line) /\ \E j \in 1..Len(line) : line[j] = Pipe

\* A row with at least 4 segments whose first segment is not "Runtime".
FourFieldRow(line) ==
  LET segs == Segments(line)
  IN  CandidateRow(line) /\ Len(segs) >= 4 /\ segs[1] # RuntimeWord

\* A row the scan records: a four-field row that is not itself a
\* header-trigger line.
ValidRow(line) == FourFieldRow(line) /\ ~Trigger(line)

\* Index of the first header-trigger line (past the end when there is none).
TableStart ==
  LET at == {j \in 1..Len(lines) : Trigger(lines[j])}
  IN  IF at = {} THEN Len(lines) + 1 ELSE Least(at)

\* Index of the first blank line after the table has started (past the end
\* when there is none).
TableEnd ==
  LET start == TableStart
      at == {j \in (start + 1)..Len(lines) : Blank(lines[j])}
  IN  IF at = {} THEN Len(lines) + 1 ELSE Least(at)

\* The table region: after the header-trigger line, before the blank line.
Region == (TableStart + 1)..(TableEnd - 1)

\* The first four fields of a record or of a row's segments.
First4(r) == SubSeq(r, 1, 4)

\* results holds, in order, the rows of the table region that satisfy Row.
RecordsAre(Row(_)) ==
  LET rows == Sorted({j \in Region : Row(lines[j])})
  IN  /\ Len(results) = Len(rows)
      /\ \A n \in 1..Len(rows) :
           First4(results[n]) = First4(Segments(lines[rows[n]]))

\* -------------------------------------------------------------------- C1
\* C1 as stated: when the loop ends, results holds exactly the
\* four-field rows (at least 4 segments, first segment not "Runtime") of the
\* table region, in log order, and the first 4 fields of each record are the
\* first 4 segments of its row.
C1_AsStated == LoopEnded => RecordsAre(FourFieldRow)

\* C1, amended: when the loop ends, results holds exactly the
\* four-field rows of the table region that do not themselves contain both
\* "Runtime" and "Min", in log order, and the first 4 fields of each record
\* are the first 4 trimmed non-empty pipe-split segments of its row.
C1_RecordsInOrder == LoopEnded => RecordsAre(ValidRow)

\* Two different rows were recorded, in the order of the log.
C1_Witness ==
  /\ LoopEnded
  /\ Len(results) = 2
  /\ results[1] # results[2]
  /\ First4(results[2]) = First4(Segments(lines[3]))

\* -------------------------------------------------------------------- C2
\* C2: once the table has started, the scan ends at the first blank line:
\* the loop never examines a line after it (while the loop runs, i is at most
\* the index of that line; when the loop has ended, i is exactly that index,
\* or past the end when there is no such line, so a blank line before the
\* table start does not end the scan), and every record comes from a line
\* of the table region that the loop has passed.
C2_ScanEndsAtFirstBlank ==
  /\ pc = "scan" => i <= TableEnd
  /\ ScanDone => i = TableEnd
  /\ \A n \in 1..Len(results) :
       \E j \in Region : j < i /\ results[n] = Segments(lines[j])

\* The scan ended at a blank line that a four-field row follows.
C2_Witness ==
  /\ ScanDone
  /\ TableEnd < Len(lines)
  /\ FourFieldRow(lines[TableEnd + 1])
  /\ i = TableEnd

\* -------------------------------------------------------------------- C3
\* The loop is about to examine a candidate row of the table region.
AtRegionRow ==
  pc = "scan" /\ i \in Region /\ CandidateRow(lines[i])

\* This step appends the record of line i.
AppendsRow ==
  /\ Len(results') = Len(results) + 1
  /\ SubSeq(results', 1, Len(results)) = results
  /\ First4(results'[Len(results')]) = First4(Segments(lines[i]))

\* C3 as stated: in the table region a candidate row is accepted as a record
\* if and only if it has at least 4 segments and its first segment is not
\* "Runtime", whatever substrings the line contains.
C3_AsStated ==
  [][AtRegionRow =>
       IF FourFieldRow(lines[i]) THEN AppendsRow ELSE results' = results]_vars

\* C3, amended: in the table region a candidate row is accepted as a record
\* if and only if it has at least 4 segments, its first segment is not
\* "Runtime", and the line does not contain both "Runtime" and "Min" (such a
\* line is discarded as a header line before its segments are looked at).
C3_AcceptedIff ==
  [][AtRegionRow =>
       IF ValidRow(lines[i]) THEN AppendsRow ELSE results' = results]_vars

\* A row was accepted, and after it a four-field row that contains both
\* substrings was examined and not accepted.
C3_Witness ==
  /\ pc = "scan"
  /\ i = 4
  /\ Region = {2, 3}
  /\ ValidRow(lines[2])
  /\ FourFieldRow(lines[3]) /\ Trigger(lines[3])
  /\ Len(results) = 1

\* -------------------------------------------------------------------- C4
\* C4: when no line of the log contains both "Runtime" and "Min", in_table
\* stays false and results stays empty, and the loop ends only when it has
\* run through every line.
C4_NoHeaderNoRecords ==
  (\A j \in 1..Len(lines) : ~Trigger(lines[j])) =>
     /\ in_table = FALSE
     /\ results = <<>>
     /\ ScanDone => i = Len(lines) + 1

\* A log without a header line but with a four-field row was scanned to its
\* end.
C4_Witness ==
  /\ pc = "done"
  /\ \A j \in 1..Len(lines) : ~Trigger(lines[j])
  /\ \E j \in 1..Len(lines) : FourFieldRow(lines[j])
  /\ results = <<>>

\* -------------------------------------------------------------------- C5
\* A non-blank line with fewer than 4 segments.
ShortLine(line) == ~Blank(line) /\ Len(Segments(line)) < 4

\* While the loop runs and when it ends, for every short line of the table
\* region that the loop has passed: no record comes from it, the loop did
\* not end at it, and every later row of the region that satisfies Row and
\* that the loop has passed is recorded.
ShortLinesSkipped(Row(_)) ==
  \A s \in Region :
    ((pc = "scan" \/ LoopEnded) /\ s < i /\ ShortLine(lines[s])) =>
       /\ \A n \in 1..Len(results) : results[n] # Segments(lines[s])
       /\ LoopEnded => i > s
       /\ \A j \in Region :
            (s < j /\ j < i /\ Row(lines[j])) =>
               \E n \in 1..Len(results) :
                 First4(results[n]) = First4(Segments(lines[j]))

PipeCount(text) == Cardinality({j \in 1..Len(text) : text[j] = Pipe})

\* C6 as stated: every element of results has exactly 4 fields, all
\* non-empty.
C6_AsStated ==
  \A n \in 1..Len(results) :
    /\ Len(results[n]) = 4
    /\ \A f \in 1..Len(results[n]) : results[n][f] # <<>>

\* C6, amended: every element of results has at least 4 fields, all
\* non-empty (a row with more than 4 segments keeps them all in its record),
\* and only the first 4 are rendered: every console data row and every
\* markdown data row has 4 columns (5 pipes).
C6_AtLeastFourFields ==
  /\ \A n \in 1..Len(results) :
       /\ Len(results[n]) >= 4
       /\ \A f \in 1..Len(results[n]) : results[n][f] # <<>>
  /\ \A n \in 3..Len(stdout) :
       stdout[n] = ConsoleTotal(Len(results)) \/ PipeCount(stdout[n]) = 5
  /\ (script = "summary" /\ pc \in {"console", "c_header", "done"}) =>
       PipeCount(summary.data) = 10 + 5 * Len(results)

\* A record with more than 4 fields was rendered by both renderers.
C6_Witness ==
  /\ pc = "done"
  /\ script = "summary"
  /\ \E n \in 1..Len(results) : Len(results[n]) > 4

\* -------------------------------------------------------------------- C7
\* stdout is the console table of results: the header row, the separator
\* row, one row per record in order (a row's segments are the record's first
\* 4 fields), and the total line with the number of records.
ConsoleTableShown ==
  /\ Len(stdout) = Len(results) + 3
  /\ stdout[1] = ConsoleHeader
  /\ stdout[2] = ConsoleSeparator
  /\ \A n \in 1..Len(results) :
       Segments(stdout[n + 2]) = First4(results[n])
  /\ stdout[Len(stdout)] = TotalPre \o Str(Len(results)) \o TotalPost

\* C7 as stated: when either script has finished, an empty result has
\* printed exactly the one "no results found" line, and a non-empty result
\* the console table.
C7_AsStated ==
  pc = "done" =>
    IF results = <<>> THEN stdout = <<NoResults>> ELSE ConsoleTableShown

\* -------------------------------------------------------------------- C8
\* text is the unpadded markdown row of record r, with its newline.
UnpaddedRow(text, r) ==
  /\ Len(text) = Len(r[1]) + Len(r[2]) + Len(r[3]) + Len(r[4]) + 14
  /\ text[Len(text)] = "\n"
  /\ Segments(SubSeq(text, 1, Len(text) - 1)) = First4(r)

\* Where the n-th data row starts in the file, less one.
RECURSIVE RowOffset(_)
RowOffset(n) ==
  IF n = 1 THEN Len(MdHeading) + Len(MdHeader) + Len(MdSeparator)
  ELSE RowOffset(n - 1) + Len(results[n - 1][1])
         + Len(results[n - 1][2]) + Len(results[n - 1][3])
         + Len(results[n - 1][4]) + 14

\* C8: once the markdown script has closed bench-summary.md, the file holds,
\* in this order, the "Performance Benchmarks" heading, the header row, the
\* separator row, one unpadded row per record in parse order, and the total
\* line with the number of records (0 for an empty result).
C8_MarkdownFile ==
  (script = "summary"
     /\ pc \in {"console", "c_header", "c_separator", "c_rows", "done"}) =>
    LET data == summary.data
        tail == MdTotalPre \o Str(Len(results)) \o <<"\n">>
        rowsEnd == RowOffset(Len(results) + 1)
    IN  /\ summary.exists
        /\ Len(data) = rowsEnd + Len(tail)
        /\ SubSeq(data, 1, RowOffset(1)) = MdHeading \o MdHeader \o MdSeparator
        /\ \A n \in 1..Len(results) :
             UnpaddedRow(SubSeq(data, RowOffset(n) + 1, RowOffset(n + 1)),
                         results[n])
        /\ SubSeq(data, rowsEnd + 1, Len(data)) = tail

\* The markdown script has finished with an empty result and a written file.
C8_Witness ==
  /\ script = "summary"
  /\ pc = "done"
  /\ results = <<>>
  /\ summary.exists
  /\ log.exists

\* -------------------------------------------------------------------- C9
\* The console data rows printed so far, as indexes into stdout; the row at
\* index n renders results[n - 2].
PrintedRows ==
  {n \in 3..Len(stdout) : n - 2 <= Len(results) /\ n - 2 < k
                            /\ pc \in {"c_rows", "done"}}

\* C9 as stated: every console data row renders runtime in exactly 7
\* characters and min, max and avg in exactly 5 characters each, so it is as
\* long as the header row and the separator row.
C9_AsStated ==
  \A n \in PrintedRows :
    /\ Len(stdout[n]) = Len(ConsoleSeparator)
    /\ Len(stdout[n]) = Len(ConsoleHeader) - 1
    /\ \A c \in {1, 11, 19, 27, 35} : stdout[n][c] = Pipe

\* cell is value left-justified in width characters: the value in full, then
\* spaces up to the width, nothing cut off.
LeftJustified(cell, value, width) ==
  /\ Len(cell) = IF Len(value) > width THEN Len(value) ELSE width
  /\ \A c \in 1..Len(cell) :
       cell[c] = IF c <= Len(value) THEN value[c] ELSE " "

\* row is "| c1 | c2 | c3 | c4 |" with each cell the field left-justified in
\* at least its column's width.
RowOfCells(row, r) ==
  LET width(f) == IF f = 1 THEN 7 ELSE 5
      cellLen(f) == IF Len(r[f]) > width(f) THEN Len(r[f]) ELSE width(f)
      start(f) == 2 + 3 * (f - 1)
                    + (IF f > 1 THEN cellLen(1) ELSE 0)
                    + (IF f > 2 THEN cellLen(2) ELSE 0)
                    + (IF f > 3 THEN cellLen(3) ELSE 0)
  IN  /\ Len(row) = start(4) + cellLen(4) + 2
      /\ row[1] = Pipe /\ row[2] = " "
      /\ \A f \in 1..4 :
           /\ LeftJustified(SubSeq(row, start(f) + 1, start(f) + cellLen(f)),
                            r[f], width(f))
           /\ row[start(f) + cellLen(f) + 1] = " "
           /\ row[start(f) + cellLen(f) + 2] = Pipe

\* The fields of record r fit their columns.
Fits(r) == Len(r[1]) <= 7 /\ \A f \in 2..4 : Len(r[f]) <= 5

\* C9, amended: every console data row renders runtime left-justified in at
\* least 7 characters and min, max and avg in at least 5 characters each,
\* space-padded on the right and never truncated; the row is as long as the
\* header and separator rows exactly when runtime has at most 7 characters
\* and min, max and avg at most 5 each.
C9_LeftJustified ==
  \A n \in PrintedRows :
    /\ RowOfCells(stdout[n], results[n - 2])
    /\ Fits(results[n - 2]) <=>
         /\ Len(stdout[n]) = Len(ConsoleSeparator)
         /\ Len(stdout[n]) = Len(ConsoleHeader) - 1

\* A row whose fields fit and a row with a longer field were both printed.
C9_Witness ==
  /\ pc = "done"
  /\ \E n \in PrintedRows : Fits(results[n - 2])
  /\ \E n \in PrintedRows : ~Fits(results[n - 2])

\* ------------------------------------------------------------------- C10
\* The log has been read and the loop over its lines has run to its end or
\* to its break.
ScanComplete ==
  /\ ScanDone
  /\ log.exists
  /\ content = log.data
  /\ i > Len(lines) \/ (in_table /\ Blank(lines[i]))

\* C10: when bench-output.log does not exist the script stops at the read
\* step with nothing printed, and no step changes bench-summary.md unless
\* the log exists and has been read and scanned to completion.
C10_NoLogNoOutput ==
  /\ [](~log.exists => (pc \in {"read", "crashed"} /\ stdout = <<>>))
  /\ [][summary' # summary => ScanComplete]_vars

\* The markdown script crashed on the missing log and the old summary file
\* is still there.
C10_Witness ==
  /\ script = "summary"
  /\ pc = "crashed"
  /\ ~log.exists
  /\ summary = File(OldSummary)

====
